---- MODULE Spec2Model ----
(***************************************************************************)
(* gensim/models/phrases.py: collocation counting (Phrases.learn_vocab,    *)
(* Phrases.add_vocab), scoring, phrase export, and the two sentence        *)
(* transformers (Phrases.__getitem__, Phraser.__getitem__).                *)
(*                                                                         *)
(* Representation of tokens.  A utf8 byte token is the sequence of its     *)
(* delimiter-free segments: b'new' is <<"new">>, b'new_york' is            *)
(* <<"new", "york">>.  delimiter.join((x, y)) is then x \o y and           *)
(* k.split(delimiter) is k itself, exactly as for byte strings, including  *)
(* the collision between the plain token b'a_b' and the joined pair        *)
(* (b'a', b'b').  A unicode token, as sentences hold them, is a record     *)
(* [kind |-> "unicode", segs |-> ...].                                     *)
(*                                                                         *)
(* Scores are exact: a rational is [kind |-> "rat", n, d] with d > 0; the  *)
(* npmi score, a quotient of logarithms, is kept as its four arguments and *)
(* compared with a rational threshold by exponentiating both sides.        *)
(***************************************************************************)
EXTENDS Integers, Sequences, FiniteSets, TLC

VARIABLES
    status,             \* "none" | "ok" | "error": is there a Phrases object
    min_count,          \* Phrases.min_count
    threshold,          \* Phrases.threshold, a rational <<n, d>>
    scoring,            \* Phrases.scoring: the name of the scoring function
    max_vocab_size,     \* Phrases.max_vocab_size
    vocab,              \* Phrases.vocab: byte token -> count
    min_reduce,         \* Phrases.min_reduce
    corpus_word_count,  \* Phrases.corpus_word_count
    phraser,            \* "none" | "built": is there a Phraser object
    phrasegrams,        \* Phraser.phrasegrams: <<a, b>> -> <<count, score>>
    p_threshold,        \* Phraser.threshold
    p_min_count,        \* Phraser.min_count
    p_scoring,          \* Phraser.scoring
    last,               \* the last call: its name, arguments and result
    history             \* what the run remembers of earlier calls: the
                        \* batches given to add_vocab so far, in order
                        \* (SpecMerge, SpecLearn), the Phraser as it was
                        \* built (SpecSnapshot)

vars == <<status, min_count, threshold, scoring, max_vocab_size, vocab,
          min_reduce, corpus_word_count, phraser, phrasegrams, p_threshold,
          p_min_count, p_scoring, last, history>>

model_vars == <<status, min_count, threshold, scoring, max_vocab_size, vocab,
                min_reduce, corpus_word_count>>

phraser_vars == <<phraser, phrasegrams, p_threshold, p_min_count, p_scoring>>

----------------------------------------------------------------------------
(* Bounds of the model.                                                    *)

\* longest sentence given to learn_vocab / add_vocab / the constructor
MaxLen == 3
\* most sentences in the single learning pass of SpecLearn
MaxSentences == 2
\* longest sentence given to __getitem__ / export_phrases
MaxApplyLen == 3

----------------------------------------------------------------------------
(* Inputs.                                                                 *)

Atoms == {"a", "b"}

Words == [kind : {"unicode"}, segs : {<<x>> : x \in Atoms}]

SeqsUpTo(S, n) == UNION {[1..k -> S] : k \in 0..n}

TrainSentences == SeqsUpTo(Words, MaxLen)

\* the corpora of the runs with several calls: empty, or one sentence
Batches == {<<>>} \cup {<<s>> : s \in TrainSentences}

LearnBatches == SeqsUpTo(TrainSentences, MaxSentences)

ApplySentences == SeqsUpTo(Words, MaxApplyLen)

MaxVocabSizes == {1, 2, 1000}

----------------------------------------------------------------------------
(* gensim.utils helpers.                                                   *)

\* utils.any2utf8: the utf8 bytes of a token; a sentence holds its tokens
\* as records of kind "unicode" or "bytes", the bytes are the segments
any2utf8(w) == w.segs

\* utils.to_unicode: the unicode token of utf8 bytes
to_unicode(b) == [kind |-> "unicode", segs |-> b]

\* delimiter.join((a, b)) for the model's delimiter
Join(a, b) == a \o b

EmptyVocab == [k \in {} |-> 0]

\* vocab[k] += n on a defaultdict(int)
Add(v, k, n) ==
    IF k \in DOMAIN v THEN [v EXCEPT ![k] = @ + n] ELSE v @@ (k :> n)

\* utils.prune_vocab(vocab, min_reduce): drop every key with count < min_reduce
prune_vocab(v, mr) ==
    LET keep == {k \in DOMAIN v : v[k] >= mr} IN [k \in keep |-> v[k]]

Max(x, y) == IF x >= y THEN x ELSE y

----------------------------------------------------------------------------
(* Phrases.learn_vocab                                                     *)

\* faulty variant: the second word of the pair is counted, not the first
RECURSIVE CountBigramsSecondWord(_, _, _)
CountBigramsSecondWord(st, s, i) ==
    IF i >= Len(s) THEN st
    ELSE CountBigramsSecondWord(
            [st EXCEPT !.vocab = Add(Add(@, s[i + 1], 1),
                                     Join(s[i], s[i + 1]), 1),
                       !.total_words = @ + 1],
            s, i + 1)

\* the body of `for bigram in zip(sentence, sentence[1:])`, from pair i on
RECURSIVE CountBigrams(_, _, _)
CountBigrams(st, s, i) ==
    IF i >= Len(s) THEN st
    ELSE CountBigrams(
            [st EXCEPT !.vocab = Add(Add(@, s[i], 1), Join(s[i], s[i + 1]), 1),
                       !.total_words = @ + 1],
            s, i + 1)

\* faulty variant: the last word is counted, the word total is not advanced
CountLastWordNoTotal(st, s) ==
    IF s # <<>> THEN [st EXCEPT !.vocab = Add(@, s[Len(s)], 1)] ELSE st

\* `if sentence:` add the last word skipped by the pair loop
CountLastWord(st, s) ==
    IF s # <<>>
    THEN [st EXCEPT !.vocab = Add(@, s[Len(s)], 1), !.total_words = @ + 1]
    ELSE st

\* `if len(vocab) > max_vocab_size:` prune, then advance min_reduce
PruneIfOver(st, mvs) ==
    IF Cardinality(DOMAIN st.vocab) > mvs
    THEN [st EXCEPT !.vocab = prune_vocab(@, st.min_reduce),
                    !.min_reduce = @ + 1]
    ELSE st

\* one iteration of `for sentence_no, sentence in enumerate(sentences)`
LearnSentence(st, sentence, mvs) ==
    LET s == [i \in 1..Len(sentence) |-> any2utf8(sentence[i])]
    IN  PruneIfOver(CountLastWord(CountBigrams(st, s, 1), s), mvs)

RECURSIVE LearnLoop(_, _, _, _)
LearnLoop(st, sentences, i, mvs) ==
    IF i > Len(sentences) THEN st
    ELSE LearnLoop(LearnSentence(st, sentences[i], mvs), sentences, i + 1, mvs)

\* returns [min_reduce, vocab, total_words]
learn_vocab(sentences, mvs) ==
    LearnLoop([vocab |-> EmptyVocab, min_reduce |-> 1, total_words |-> 0],
              sentences, 1, mvs)

----------------------------------------------------------------------------
(* Phrases.add_vocab                                                       *)

RECURSIVE MergeCounts(_, _, _)
\* `for word, count in iteritems(vocab): self.vocab[word] += count`
MergeCounts(into, from, keys) ==
    IF keys = {} THEN into
    ELSE LET k == CHOOSE x \in keys : TRUE
         IN  MergeCounts(Add(into, k, from[k]), from, keys \ {k})

\* faulty variant: the merge overwrites the accumulated count instead of adding to it
MergeVocabOverwrite(into, from) ==
    [k \in DOMAIN into \cup DOMAIN from |->
        IF k \in DOMAIN from THEN from[k] ELSE into[k]]

MergeVocab(into, from) == MergeCounts(into, from, DOMAIN from)

\* add_vocab on the model m = [vocab, min_reduce, corpus_word_count,
\* max_vocab_size]; returns the model after the call
add_vocab(m, sentences) ==
    LET learned == learn_vocab(sentences, m.max_vocab_size)
        cwc == m.corpus_word_count + learned.total_words
    IN  IF Cardinality(DOMAIN m.vocab) > 0
        THEN LET mr == Max(m.min_reduce, learned.min_reduce)
                 merged == MergeVocab(m.vocab, learned.vocab)
             IN  IF Cardinality(DOMAIN merged) > m.max_vocab_size
                 THEN [m EXCEPT !.corpus_word_count = cwc,
                                !.vocab = prune_vocab(merged, mr),
                                !.min_reduce = mr + 1]
                 ELSE [m EXCEPT !.corpus_word_count = cwc,
                                !.vocab = merged,
                                !.min_reduce = mr]
        ELSE [m EXCEPT !.corpus_word_count = cwc, !.vocab = learned.vocab]

Model == [vocab |-> vocab, min_reduce |-> min_reduce,
          corpus_word_count |-> corpus_word_count,
          max_vocab_size |-> max_vocab_size]

\* the model right after Phrases.__init__ has set its fields
FreshModel(mvs) == [vocab |-> EmptyVocab, min_reduce |-> 1,
                    corpus_word_count |-> 0, max_vocab_size |-> mvs]

\* the call add_vocab(sentences) on the Phrases object
AddVocab(sentences) ==
    /\ status = "ok"
    /\ LET learned == learn_vocab(sentences, max_vocab_size)
           after == add_vocab(Model, sentences)
       IN  /\ vocab' = after.vocab
           /\ min_reduce' = after.min_reduce
           /\ corpus_word_count' = after.corpus_word_count
           /\ last' = [op |-> "add_vocab", sentences |-> sentences,
                       learned_min_reduce |-> learned.min_reduce,
                       total_words |-> learned.total_words,
                       pre_min_reduce |-> min_reduce,
                       pre_size |-> Cardinality(DOMAIN vocab),
                       repruned |-> /\ Cardinality(DOMAIN vocab) > 0
                                    /\ Cardinality(DOMAIN MergeVocab(
                                           vocab, learned.vocab))
                                         > max_vocab_size]
    /\ UNCHANGED <<status, min_count, threshold, scoring, max_vocab_size>>
    /\ UNCHANGED phraser_vars

----------------------------------------------------------------------------
(* Scoring.                                                                *)

\* is the rational thr = <<n, d>> (d > 0) below, equal to, above zero / one
RatLE0(thr) == thr[1] <= 0
RatLTminus1(thr) == thr[1] < -thr[2]
RatGT1(thr) == thr[1] > thr[2]

\* faulty variant: the subtraction of min_count is left out
original_scorer_no_min_count(worda_count, wordb_count, bigram_count, len_vocab, min_count_, corpus_word_count_) ==
    [kind |-> "rat", n |-> bigram_count * len_vocab,
     d |-> worda_count * wordb_count]

\* (bigram_count - min_count) / worda_count / wordb_count * len_vocab
original_scorer(worda_count, wordb_count, bigram_count, len_vocab, min_count_, corpus_word_count_) ==
    [kind |-> "rat", n |-> (bigram_count - min_count_) * len_vocab,
     d |-> worda_count * wordb_count]

\* log(pab / (pa * pb)) / -log(pab), kept as its arguments
npmi_scorer(worda_count, wordb_count, bigram_count, len_vocab, min_count_, corpus_word_count_) ==
    [kind |-> "npmi", wa |-> worda_count, wb |-> wordb_count,
     bc |-> bigram_count, cwc |-> corpus_word_count_]

\* a scoring function of the caller's, with the six expected parameters:
\* bigram_count / min_count
custom_scorer(worda_count, wordb_count, bigram_count, len_vocab, min_count_, corpus_word_count_) ==
    [kind |-> "rat", n |-> bigram_count, d |-> min_count_]

\* scorer(worda_count=..., ...) for the scoring function named `name`
Score(name, wa, wb, bc, lv, mc, cwc) ==
    CASE name = "original_scorer" -> original_scorer(wa, wb, bc, lv, mc, cwc)
      [] name = "npmi_scorer" -> npmi_scorer(wa, wb, bc, lv, mc, cwc)
      [] name = "custom_scorer" -> custom_scorer(wa, wb, bc, lv, mc, cwc)

\* score > threshold.  For npmi, with 0 < pab < 1 and thr = n / d:
\*   log(pab/(pa*pb)) / -log(pab) > n/d
\*     <=>  (pab/(pa*pb))^d * pab^n > 1
\*     <=>  (bc*cwc)^d * bc^n > (wa*wb)^d * cwc^n          (n >= 0)
\*          (bc*cwc)^d * cwc^(-n) > (wa*wb)^d * bc^(-n)    (n < 0)
ScoreGT(score, thr) ==
    IF score.kind = "rat"
    THEN score.n * thr[2] > thr[1] * score.d
    ELSE LET n == thr[1]
             d == thr[2]
             lhs == (score.bc * score.cwc) ^ d
             rhs == (score.wa * score.wb) ^ d
         IN  IF n >= 0
             THEN lhs * (score.bc ^ n) > rhs * (score.cwc ^ n)
             ELSE lhs * (score.cwc ^ (0 - n)) > rhs * (score.bc ^ (0 - n))

----------------------------------------------------------------------------
(* Phrases.export_phrases and Phrases.__getitem__                          *)

\* faulty variant: the bigram's count is not compared with min_count
PhrasesAcceptsAnyCount(word_a, word_b) ==
    /\ word_a \in DOMAIN vocab
    /\ word_b \in DOMAIN vocab
    /\ Join(word_a, word_b) \in DOMAIN vocab
    /\ ScoreGT(Score(scoring, vocab[word_a], vocab[word_b],
                     vocab[Join(word_a, word_b)], Cardinality(DOMAIN vocab),
                     min_count, corpus_word_count),
               threshold)

\* the score of the pair (word_a, word_b), all three keys being in vocab
PhrasesScore(word_a, word_b) ==
    Score(scoring, vocab[word_a], vocab[word_b], vocab[Join(word_a, word_b)],
          Cardinality(DOMAIN vocab), min_count, corpus_word_count)

\* the test of one pair, but for `not last_bigram`: both words and the
\* joined key are in vocab, score > threshold and count_ab >= min_count
PhrasesAccepts(word_a, word_b) ==
    /\ word_a \in DOMAIN vocab
    /\ word_b \in DOMAIN vocab
    /\ Join(word_a, word_b) \in DOMAIN vocab
    /\ ScoreGT(PhrasesScore(word_a, word_b), threshold)
    /\ vocab[Join(word_a, word_b)] >= min_count

\* out_delimiter.join((word_a, word_b)), or the tuple itself
Phrase(word_a, word_b, out_delimiter, as_tuples) ==
    IF as_tuples THEN <<word_a, word_b>> ELSE <<word_a, out_delimiter, word_b>>

\* the pair loop of export_phrases over sentence number j, from pair i on;
\* every yielded item carries the place (sent, pos) it was yielded at
RECURSIVE ExportWalk(_, _, _, _, _, _, _)
ExportWalk(s, i, last_bigram, out, j, out_delimiter, as_tuples) ==
    IF i >= Len(s) THEN out
    ELSE IF PhrasesAccepts(s[i], s[i + 1]) /\ ~last_bigram
         THEN ExportWalk(s, i + 1, TRUE,
                  Append(out, [phrase |-> Phrase(s[i], s[i + 1],
                                                 out_delimiter, as_tuples),
                               score |-> PhrasesScore(s[i], s[i + 1]),
                               sent |-> j, pos |-> i]),
                  j, out_delimiter, as_tuples)
         ELSE ExportWalk(s, i + 1, FALSE, out, j, out_delimiter, as_tuples)

\* what export_phrases yields for sentence number j
ExportSentence(sentence, j, out_delimiter, as_tuples) ==
    LET s == [i \in 1..Len(sentence) |-> any2utf8(sentence[i])]
    IN  ExportWalk(s, 1, FALSE, <<>>, j, out_delimiter, as_tuples)

RECURSIVE ExportLoop(_, _, _, _)
ExportLoop(sentences, j, out_delimiter, as_tuples) ==
    IF j > Len(sentences) THEN <<>>
    ELSE ExportSentence(sentences[j], j, out_delimiter, as_tuples)
         \o ExportLoop(sentences, j + 1, out_delimiter, as_tuples)

\* everything the generator export_phrases(sentences, ...) yields, in order
export_phrases(sentences, out_delimiter, as_tuples) ==
    ExportLoop(sentences, 1, out_delimiter, as_tuples)

\* six.string_types, for the unicode tokens sentences hold
string_types == {"unicode"}

\* _is_single(obj)[0]: an empty object or one whose first item is a string
IsSingle(obj) ==
    IF obj = <<>> THEN TRUE ELSE obj[1].kind \in string_types

\* faulty variant: the last token is never appended
RECURSIVE PhrasesWalkDropsLast(_, _, _, _)
PhrasesWalkDropsLast(s, i, last_bigram, acc) ==
    IF i >= Len(s)
    THEN acc
    ELSE IF PhrasesAccepts(s[i], s[i + 1]) /\ ~last_bigram
         THEN PhrasesWalkDropsLast(s, i + 1, TRUE,
                  [acc EXCEPT !.new_s = Append(@, Join(s[i], s[i + 1])),
                              !.merged = @ \cup {i}])
         ELSE PhrasesWalkDropsLast(s, i + 1, FALSE,
                  IF ~last_bigram
                  THEN [acc EXCEPT !.new_s = Append(@, s[i])]
                  ELSE acc)

\* the pair loop of Phrases.__getitem__ from pair i on; acc.merged holds the
\* positions i whose pair (s[i], s[i + 1]) was appended as one token
RECURSIVE PhrasesWalk(_, _, _, _)
PhrasesWalk(s, i, last_bigram, acc) ==
    IF i >= Len(s)
    THEN IF s # <<>> /\ ~last_bigram
         THEN [acc EXCEPT !.new_s = Append(@, s[Len(s)])]
         ELSE acc
    ELSE IF PhrasesAccepts(s[i], s[i + 1]) /\ ~last_bigram
         THEN PhrasesWalk(s, i + 1, TRUE,
                  [acc EXCEPT !.new_s = Append(@, Join(s[i], s[i + 1])),
                              !.merged = @ \cup {i}])
         ELSE PhrasesWalk(s, i + 1, FALSE,
                  IF ~last_bigram
                  THEN [acc EXCEPT !.new_s = Append(@, s[i])]
                  ELSE acc)

\* Phrases.__getitem__(sentence) for a single sentence
PhrasesGetitem(sentence) ==
    LET s == [i \in 1..Len(sentence) |-> any2utf8(sentence[i])]
        w == PhrasesWalk(s, 1, FALSE, [new_s |-> <<>>, merged |-> {}])
    IN  [result |-> [i \in 1..Len(w.new_s) |-> to_unicode(w.new_s[i])],
         merged |-> w.merged]

----------------------------------------------------------------------------
(* pseudocorpus and Phraser                                                *)

\* the two-token sentences pseudocorpus(source_vocab, sep) yields: every
\* split of every key that holds the separator
pseudocorpus(source_vocab) ==
    UNION {{<<[kind |-> "bytes", segs |-> SubSeq(k, 1, i)],
              [kind |-> "bytes", segs |-> SubSeq(k, i + 1, Len(k))]>> :
               i \in 1..(Len(k) - 1)} :
           k \in {x \in DOMAIN source_vocab : Len(x) >= 2}}

\* the phrasegrams Phraser.__init__ collects from the model: every pair
\* export_phrases yields for the pseudocorpus, with (count, score).  A pair
\* yielded twice gets the same value twice, so the order of the keys of
\* vocab does not matter.
BuildPhrasegrams ==
    LET items == UNION {{ExportSentence(ps, 1, "_", TRUE)[k] :
                           k \in 1..Len(ExportSentence(ps, 1, "_", TRUE))} :
                        ps \in pseudocorpus(vocab)}
        bigrams == {it.phrase : it \in items}
    IN  [bigram \in bigrams |->
            <<vocab[Join(bigram[1], bigram[2])],
              (CHOOSE it \in items : it.phrase = bigram).score>>]

\* phrasegrams.get(bigram_tuple, (-1, -1))[1]
PhraserScore(bigram_tuple) ==
    IF bigram_tuple \in DOMAIN phrasegrams
    THEN phrasegrams[bigram_tuple][2]
    ELSE [kind |-> "rat", n |-> -1, d |-> 1]

\* faulty variant: the Phraser reads the threshold of the model it was built from
PhraserAcceptsLive(word_a, word_b) ==
    ScoreGT(PhraserScore(<<word_a, word_b>>), threshold)

\* phrasegrams.get(bigram_tuple, (-1, -1))[1] > self.threshold
PhraserAccepts(word_a, word_b) ==
    ScoreGT(PhraserScore(<<word_a, word_b>>), p_threshold)

\* faulty variant: a pair is merged although the pair before it was
PhraserMergesOverlapping(word_a, word_b, last_bigram) ==
    PhraserAccepts(word_a, word_b)

\* the condition under which Phraser.__getitem__ appends the joined pair
PhraserMerges(word_a, word_b, last_bigram) ==
    PhraserAccepts(word_a, word_b) /\ ~last_bigram

\* the pair loop of Phraser.__getitem__ from pair i on
RECURSIVE PhraserWalk(_, _, _, _)
PhraserWalk(s, i, last_bigram, acc) ==
    IF i >= Len(s)
    THEN IF s # <<>> /\ ~last_bigram
         THEN [acc EXCEPT !.new_s = Append(@, s[Len(s)])]
         ELSE acc
    ELSE IF PhraserMerges(s[i], s[i + 1], last_bigram)
         THEN PhraserWalk(s, i + 1, TRUE,
                  [acc EXCEPT !.new_s = Append(@, Join(s[i], s[i + 1])),
                              !.merged = @ \cup {i}])
         ELSE PhraserWalk(s, i + 1, FALSE,
                  IF ~last_bigram
                  THEN [acc EXCEPT !.new_s = Append(@, s[i])]
                  ELSE acc)

\* Phraser.__getitem__(sentence) for a single sentence
PhraserGetitem(sentence) ==
    LET s == [i \in 1..Len(sentence) |-> any2utf8(sentence[i])]
        w == PhraserWalk(s, 1, FALSE, [new_s |-> <<>>, merged |-> {}])
    IN  [result |-> [i \in 1..Len(w.new_s) |-> to_unicode(w.new_s[i])],
         merged |-> w.merged]

----------------------------------------------------------------------------
(* Phrases.__init__                                                        *)

\* the scoring arguments tried: the two built-in names, an unknown name, a
\* function with the six expected parameters, a function lacking some
ScoringArgs == {"default", "npmi", "bogus", "custom_scorer", "bad_scorer"}

\* isinstance(scoring, six.string_types)
IsStringArg(sc) == sc \in {"default", "npmi", "bogus"}

\* all(parameter in getargspec(scoring)[0] for parameter in scoring_parameters)
HasScoringParameters(sc) == sc = "custom_scorer"

\* faulty variant: only a negative min_count is refused
ValidateNegativeMinCount(mc, thr, sc) ==
    IF mc < 0 THEN "ValueError"
    ELSE IF RatLE0(thr) /\ sc = "default" THEN "ValueError"
    ELSE IF sc = "npmi" /\ (RatLTminus1(thr) \/ RatGT1(thr)) THEN "ValueError"
    ELSE IF IsStringArg(sc)
         THEN (IF sc = "default" THEN "original_scorer"
               ELSE IF sc = "npmi" THEN "npmi_scorer"
               ELSE "ValueError")
         ELSE (IF HasScoringParameters(sc) THEN sc ELSE "ValueError")

\* the checks of the constructor, in their order: "ValueError", or the name
\* of the scoring function the object gets
Validate(mc, thr, sc) ==
    IF mc <= 0 THEN "ValueError"
    ELSE IF RatLE0(thr) /\ sc = "default" THEN "ValueError"
    ELSE IF sc = "npmi" /\ (RatLTminus1(thr) \/ RatGT1(thr)) THEN "ValueError"
    ELSE IF IsStringArg(sc)
         THEN (IF sc = "default" THEN "original_scorer"
               ELSE IF sc = "npmi" THEN "npmi_scorer"
               ELSE "ValueError")
         ELSE (IF HasScoringParameters(sc) THEN sc ELSE "ValueError")

NoPhraser ==
    /\ phraser = "none"
    /\ phrasegrams = [p \in {} |-> 0]
    /\ p_threshold = <<0, 1>>
    /\ p_min_count = 0
    /\ p_scoring = "none"

\* no Phrases object, no Phraser object
InitNone ==
    /\ status = "none"
    /\ min_count = 0
    /\ threshold = <<0, 1>>
    /\ scoring = "none"
    /\ max_vocab_size = 0
    /\ vocab = EmptyVocab
    /\ min_reduce = 0
    /\ corpus_word_count = 0
    /\ NoPhraser
    /\ last = [op |-> "none"]
    /\ history = <<>>

\* Phrases(sentences, min_count, threshold, max_vocab_size, scoring=sc);
\* given = FALSE stands for sentences=None
Construct(mc, thr, mvs, sc, given, sentences) ==
    /\ status = "none"
    /\ LET outcome == Validate(mc, thr, sc)
           cfg == [min_count |-> mc, threshold |-> thr,
                   max_vocab_size |-> mvs, scoring |-> sc]
       IN  IF outcome = "ValueError"
           THEN /\ status' = "error"
                /\ last' = [op |-> "init", cfg |-> cfg,
                            outcome |-> "ValueError", consumed |-> 0]
                /\ UNCHANGED <<min_count, threshold, scoring, max_vocab_size,
                               vocab, min_reduce, corpus_word_count>>
           ELSE LET after == IF given
                             THEN add_vocab(FreshModel(mvs), sentences)
                             ELSE FreshModel(mvs)
                IN  /\ status' = "ok"
                    /\ min_count' = mc
                    /\ threshold' = thr
                    /\ max_vocab_size' = mvs
                    /\ scoring' = outcome
                    /\ vocab' = after.vocab
                    /\ min_reduce' = after.min_reduce
                    /\ corpus_word_count' = after.corpus_word_count
                    /\ last' = [op |-> "init", cfg |-> cfg, outcome |-> "ok",
                                consumed |-> IF given THEN Len(sentences)
                                             ELSE 0]
    /\ UNCHANGED <<phraser_vars, history>>

----------------------------------------------------------------------------
(* The calls that read the model.                                          *)

\* list(phrases.export_phrases(sentences))
ExportPhrases(sentences) ==
    /\ status = "ok"
    /\ last' = [op |-> "export_phrases", sentences |-> sentences,
                out |-> export_phrases(sentences, " ", FALSE)]
    /\ UNCHANGED <<model_vars, phraser_vars, history>>

\* phrases[sentence]
Getitem(sentence) ==
    /\ status = "ok"
    /\ IsSingle(sentence)
    /\ LET r == PhrasesGetitem(sentence)
       IN  last' = [op |-> "getitem", sentence |-> sentence,
                    result |-> r.result, merged |-> r.merged]
    /\ UNCHANGED <<model_vars, phraser_vars>>

\* Phraser(phrases)
BuildPhraser ==
    /\ status = "ok"
    /\ phraser = "none"
    /\ phraser' = "built"
    /\ p_threshold' = threshold
    /\ p_min_count' = min_count
    /\ p_scoring' = scoring
    /\ phrasegrams' = BuildPhrasegrams
    /\ last' = [op |-> "phraser_init"]
    /\ UNCHANGED model_vars

\* phraser[sentence]
PhraserGetitemCall(sentence) ==
    /\ phraser = "built"
    /\ IsSingle(sentence)
    /\ LET r == PhraserGetitem(sentence)
       IN  last' = [op |-> "phraser_getitem", sentence |-> sentence,
                    result |-> r.result, merged |-> r.merged]
    /\ UNCHANGED <<model_vars, phraser_vars>>

----------------------------------------------------------------------------
(* Spec: a Phrases object is constructed, a Phraser is built from it, and   *)
(* sentences are transformed and phrases exported.                         *)

MinCounts == {0, 1, 2}

Thresholds == {<<-2, 1>>, <<1, 5>>, <<2, 1>>}

SpecVocabSizes == {1000}

\* the corpora given to export_phrases: one sentence, or two short ones
ExportCorpora ==
    {<<s>> : s \in ApplySentences}
    \cup {<<s, t>> : s, t \in {x \in ApplySentences : Len(x) = 2}}

DoConstruct ==
    /\ status = "none"
    /\ \E mc \in MinCounts, thr \in Thresholds, mvs \in SpecVocabSizes,
          sc \in ScoringArgs, given \in BOOLEAN, b \in Batches :
           /\ given \/ b = <<>>
           /\ Construct(mc, thr, mvs, sc, given, b)

\* The calls that only read (export_phrases and the two __getitem__) leave
\* every object as it is, so a second one in a row reaches no state that a
\* first one does not: each is taken right after a call that writes.
ReadOps == {"export_phrases", "getitem", "phraser_getitem"}

DoExport ==
    /\ last.op \notin ReadOps
    /\ status = "ok"
    /\ \E c \in ExportCorpora : ExportPhrases(c)

DoGetitem ==
    /\ last.op \notin ReadOps
    /\ status = "ok"
    /\ \E s \in ApplySentences : Getitem(s)
    /\ UNCHANGED history

DoPhraserGetitem ==
    /\ last.op \notin ReadOps
    /\ phraser = "built"
    /\ \E s \in ApplySentences : PhraserGetitemCall(s)
    /\ UNCHANGED history

DoBuildPhraser == BuildPhraser /\ UNCHANGED history

Next == DoConstruct \/ DoBuildPhraser \/ DoExport \/ DoGetitem \/ DoPhraserGetitem

Spec == InitNone /\ [][Next]_vars

----------------------------------------------------------------------------
(* SpecLearn: one learning pass merged into a freshly constructed model.   *)

InitLearn ==
    /\ status = "ok"
    /\ min_count = 5
    /\ threshold = <<10, 1>>
    /\ scoring = "original_scorer"
    /\ max_vocab_size \in MaxVocabSizes
    /\ vocab = EmptyVocab
    /\ min_reduce = 1
    /\ corpus_word_count = 0
    /\ NoPhraser
    /\ last = [op |-> "init"]
    /\ history = <<>>

FirstPass ==
    /\ history = <<>>
    /\ \E b \in LearnBatches : AddVocab(b) /\ history' = Append(history, b)

NextLearn == FirstPass

SpecLearn == InitLearn /\ [][NextLearn]_vars

RECURSIVE NumTokens(_)
NumTokens(sentences) ==
    IF sentences = <<>> THEN 0
    ELSE Len(Head(sentences)) + NumTokens(Tail(sentences))

RECURSIVE NumPairs(_)
NumPairs(sentences) ==
    IF sentences = <<>> THEN 0
    ELSE (IF Len(Head(sentences)) >= 1 THEN Len(Head(sentences)) - 1 ELSE 0)
         + NumPairs(Tail(sentences))

\* C2 as stated: the total returned by the learning pass is the number of
\* adjacent pairs of the sentences (n - 1 for a sentence of n >= 1 tokens).
C2_TotalIsPairCount ==
    last.op = "add_vocab" => last.total_words = NumPairs(last.sentences)

\* C2 amended: the word total is advanced once per adjacent pair and once
\* more for the final token of every non-empty sentence, so the total
\* returned (and added to corpus_word_count) is the number of tokens.
C2_TotalIsTokenCount ==
    last.op = "add_vocab" =>
        /\ last.total_words = NumTokens(last.sentences)
        /\ corpus_word_count = NumTokens(last.sentences)

C2_Witness ==
    /\ last.op = "add_vocab"
    /\ Len(last.sentences) = 2
    /\ Len(last.sentences[1]) = 2
    /\ Len(last.sentences[2]) = 1
    /\ last.total_words = 3

\* the keys one sentence touches: its tokens and its joined adjacent pairs
SentenceKeys(sentence) ==
    {any2utf8(sentence[i]) : i \in 1..Len(sentence)}
    \cup {Join(any2utf8(sentence[i]), any2utf8(sentence[i + 1])) :
             i \in 1..(Len(sentence) - 1)}

\* the keys the last sentence of the pass inserted: those it touches that
\* the vocabulary did not hold when the sentence was read
NewKeysOfLastSentence(sentences, mvs) ==
    IF sentences = <<>> THEN {}
    ELSE LET n == Len(sentences)
             before == learn_vocab(SubSeq(sentences, 1, n - 1), mvs).vocab
         IN  SentenceKeys(sentences[n]) \ DOMAIN before

\* C4 as stated: right after a learning pass (here merged into an empty
\* model, which takes the learned vocabulary as it is) the vocabulary holds
\* at most max_vocab_size keys plus the keys the last sentence inserted.
C4_BoundedMemory ==
    (last.op = "add_vocab" /\ last.pre_size = 0) =>
        Cardinality(DOMAIN vocab) <=
            max_vocab_size
            + Cardinality(NewKeysOfLastSentence(last.sentences, max_vocab_size))

\* the places <<j, i>> of the tokens of the sentences
Places(sentences) ==
    {p \in (1..Len(sentences)) \X (1..MaxLen) : p[2] <= Len(sentences[p[1]])}

\* how often the utf8 token w occurs in the sentences
Occurrences(sentences, w) ==
    Cardinality({p \in Places(sentences) :
                    any2utf8(sentences[p[1]][p[2]]) = w})

\* at how many places a is immediately followed by b
PairOccurrences(sentences, a, b) ==
    Cardinality({p \in Places(sentences) :
                    /\ p[2] < Len(sentences[p[1]])
                    /\ any2utf8(sentences[p[1]][p[2]]) = a
                    /\ any2utf8(sentences[p[1]][p[2] + 1]) = b})

\* the utf8 tokens that occur in the sentences
TokensOf(sentences) ==
    {any2utf8(sentences[p[1]][p[2]]) : p \in Places(sentences)}

\* the pairs <<a, b>> that occur side by side in the sentences
PairsOf(sentences) ==
    {pr \in TokensOf(sentences) \X TokensOf(sentences) :
        PairOccurrences(sentences, pr[1], pr[2]) > 0}

\* C12: after a learning pass without pruning (tokens hold no delimiter)
\* the count of every token is the number of its occurrences, the final
\* token of each sentence included, the count of every joined key is the
\* number of places where its first word is immediately followed by its
\* second, and the vocabulary has no other key.
C12_CountsAreOccurrences ==
    (last.op = "add_vocab" /\ last.learned_min_reduce = 1) =>
        /\ DOMAIN vocab =
               TokensOf(last.sentences)
               \cup {Join(pr[1], pr[2]) : pr \in PairsOf(last.sentences)}
        /\ \A w \in TokensOf(last.sentences) :
               vocab[w] = Occurrences(last.sentences, w)
        /\ \A pr \in PairsOf(last.sentences) :
               vocab[Join(pr[1], pr[2])] =
                   PairOccurrences(last.sentences, pr[1], pr[2])

\* two sentences, a token that is counted three times and ends a sentence,
\* a pair that is counted twice
C12_Witness ==
    /\ last.op = "add_vocab"
    /\ last.learned_min_reduce = 1
    /\ Len(last.sentences) = 2
    /\ last.sentences[1] # <<>>
    /\ \E w \in TokensOf(last.sentences) :
           /\ vocab[w] >= 3
           /\ any2utf8(last.sentences[1][Len(last.sentences[1])]) = w
    /\ \E pr \in PairsOf(last.sentences) :
           pr[1] # pr[2] /\ vocab[Join(pr[1], pr[2])] = 2

----------------------------------------------------------------------------
(* SpecMerge: two add_vocab calls, one after the other, on a fresh model.  *)

AddFirst ==
    /\ history = <<>>
    /\ \E b \in Batches : AddVocab(b) /\ history' = Append(history, b)

AddSecond ==
    /\ Len(history) = 1
    /\ \E b \in Batches : AddVocab(b) /\ history' = Append(history, b)

NextMerge == AddFirst \/ AddSecond

SpecMerge == InitLearn /\ [][NextMerge]_vars

\* C3 as stated: after every add_vocab the model's min_reduce is at least
\* the larger of its value before the call and the one the learning pass
\* returned, and is that maximum when the merged vocabulary is not re-pruned.
C3_MinReduceIsMax ==
    last.op = "add_vocab" =>
        /\ min_reduce >= Max(last.pre_min_reduce, last.learned_min_reduce)
        /\ ~last.repruned =>
               min_reduce = Max(last.pre_min_reduce, last.learned_min_reduce)

\* no pruning on the two-call path nor on the one-call path
NoPruning(b1, b2, mvs) ==
    /\ learn_vocab(b1, mvs).min_reduce = 1
    /\ learn_vocab(b2, mvs).min_reduce = 1
    /\ learn_vocab(b1 \o b2, mvs).min_reduce = 1
    /\ min_reduce = 1

\* C7: without pruning, add_vocab(batch1) then add_vocab(batch2) leaves the
\* same count for every key as one add_vocab(batch1 followed by batch2).
C7_MergeAssociative ==
    (Len(history) = 2 /\ NoPruning(history[1], history[2], max_vocab_size)) =>
        vocab = add_vocab(FreshModel(max_vocab_size),
                          history[1] \o history[2]).vocab

C7_Witness ==
    /\ Len(history) = 2
    /\ NoPruning(history[1], history[2], max_vocab_size)
    /\ history[1] # <<>>
    /\ history[2] # <<>>
    /\ \E k \in DOMAIN vocab : vocab[k] >= 2 /\ Len(k) = 2

----------------------------------------------------------------------------
(* Properties of Spec.                                                    *)

\* the utf8 tokens of the sentence of the last __getitem__ call
LastBytes == [i \in 1..Len(last.sentence) |-> any2utf8(last.sentence[i])]

\* does the pair at position i of the last sentence qualify by itself, for
\* the object that was called
Qualifies(i) ==
    IF last.op = "getitem"
    THEN PhrasesAccepts(LastBytes[i], LastBytes[i + 1])
    ELSE PhraserAccepts(LastBytes[i], LastBytes[i + 1])

\* C1: in the result of Phrases.__getitem__ and of Phraser.__getitem__ no
\* two merged pairs overlap, and when the first two pairs of a sentence both
\* qualify the first is merged and the second is not: [a, b, c] becomes
\* [a_b, c].
C1_GreedyNoOverlap ==
    last.op \in {"getitem", "phraser_getitem"} =>
        /\ \A i \in last.merged : (i + 1) \notin last.merged
        /\ (Len(last.sentence) >= 3 /\ Qualifies(1) /\ Qualifies(2)) =>
               /\ 1 \in last.merged
               /\ 2 \notin last.merged
               /\ last.result[1] = to_unicode(Join(LastBytes[1], LastBytes[2]))
               /\ Len(last.sentence) = 3 =>
                      last.result =
                          <<to_unicode(Join(LastBytes[1], LastBytes[2])),
                            last.sentence[3]>>

C1_Witness ==
    /\ last.op = "phraser_getitem"
    /\ Len(last.sentence) = 3
    /\ last.sentence[1] # last.sentence[2]
    /\ Qualifies(1)
    /\ Qualifies(2)
    /\ Len(last.result) = 2

\* C5 as stated: Phraser.__getitem__ merges the pair at a position only if
\* the pair is a key of phrasegrams, its stored score is above the Phraser's
\* threshold and the pair before was not merged; a pair that is no key of
\* phrasegrams is never merged.
C5_PhraserMergesOnlyPhrasegrams ==
    last.op = "phraser_getitem" =>
        \A i \in 1..(Len(last.sentence) - 1) :
            LET pair == <<LastBytes[i], LastBytes[i + 1]>>
            IN  /\ i \in last.merged =>
                       /\ pair \in DOMAIN phrasegrams
                       /\ ScoreGT(phrasegrams[pair][2], p_threshold)
                       /\ (i - 1) \notin last.merged
                /\ pair \notin DOMAIN phrasegrams => i \notin last.merged

\* was the pair at position pos of sentence number sent yielded
Yielded(sent, pos) ==
    \E k \in 1..Len(last.out) :
        last.out[k].sent = sent /\ last.out[k].pos = pos

\* C8: export_phrases yields the pair at a position exactly when the pair
\* before it in the sentence was not yielded, both words and the joined key
\* are keys of vocab, the score is above threshold and the count of the
\* joined key is at least min_count; and Phrases.__getitem__ never merges a
\* pair whose joined key has a count below min_count.
C8_ExportExactly ==
    /\ last.op = "export_phrases" =>
          \A j \in 1..Len(last.sentences) :
              LET s == [i \in 1..Len(last.sentences[j]) |->
                           any2utf8(last.sentences[j][i])]
              IN  \A i \in 1..(Len(s) - 1) :
                      Yielded(j, i) <=>
                          /\ ~Yielded(j, i - 1)
                          /\ s[i] \in DOMAIN vocab
                          /\ s[i + 1] \in DOMAIN vocab
                          /\ Join(s[i], s[i + 1]) \in DOMAIN vocab
                          /\ ScoreGT(Score(scoring, vocab[s[i]], vocab[s[i + 1]],
                                           vocab[Join(s[i], s[i + 1])],
                                           Cardinality(DOMAIN vocab),
                                           min_count, corpus_word_count),
                                     threshold)
                          /\ vocab[Join(s[i], s[i + 1])] >= min_count
    /\ last.op = "getitem" =>
          \A i \in last.merged :
              /\ Join(LastBytes[i], LastBytes[i + 1]) \in DOMAIN vocab
              /\ vocab[Join(LastBytes[i], LastBytes[i + 1])] >= min_count

\* a pair with a score above threshold and a count below min_count was
\* looked at by export_phrases (and was not yielded)
C8_Witness ==
    /\ last.op = "export_phrases"
    /\ last.out = <<>>
    /\ \E j \in 1..Len(last.sentences) :
          LET s == [i \in 1..Len(last.sentences[j]) |->
                       any2utf8(last.sentences[j][i])]
          IN  /\ Len(s) >= 2
              /\ PhrasesAcceptsAnyCount(s[1], s[2])
              /\ vocab[Join(s[1], s[2])] < min_count

\* the configurations C9 names
BadConfig(cfg) ==
    \/ cfg.min_count <= 0
    \/ cfg.scoring = "default" /\ cfg.threshold[1] <= 0
    \/ cfg.scoring = "npmi" /\ (cfg.threshold[1] < 0 - cfg.threshold[2]
                                 \/ cfg.threshold[1] > cfg.threshold[2])
    \/ cfg.scoring = "bogus"

\* C9: the constructor called with a configuration C9 names raises
\* ValueError before it reads a sentence, and leaves no model.
C9_BadConfigRaises ==
    (last.op = "init" /\ BadConfig(last.cfg)) =>
        /\ last.outcome = "ValueError"
        /\ last.consumed = 0
        /\ status = "error"
        /\ vocab = EmptyVocab
        /\ corpus_word_count = 0

C9_Witness ==
    /\ last.op = "init"
    /\ last.cfg.min_count > 0
    /\ last.cfg.scoring = "npmi"
    /\ last.cfg.threshold = <<2, 1>>
    /\ status = "error"

----------------------------------------------------------------------------
(* SpecScenario: the model whose vocabulary is {new: 5, york: 5,           *)
(* new_york: 5} with corpus_word_count = 100, learned from a corpus of 100 *)
(* tokens with max_vocab_size = 3, then compiled and applied.              *)

new == [kind |-> "unicode", segs |-> <<"new">>]

york == [kind |-> "unicode", segs |-> <<"york">>]

\* a token that occurs once in the corpus: u'1', u'2', ...
Rare(i) == [kind |-> "unicode", segs |-> <<ToString(i)>>]

\* the corpus of the scenario, batch after batch.  Ten batches of one
\* sentence of nine tokens, no token twice: add_vocab takes the keys of the
\* first, third, ... batch and prunes them all when it merges the second,
\* fourth, ... one.  Then a batch of five times [new, york].
ScenarioBatch(words_so_far) ==
    IF words_so_far < 90
    THEN <<[i \in 1..9 |-> Rare(words_so_far + i)]>>
    ELSE [i \in 1..5 |-> <<new, york>>]

ScenarioVocab ==
    (<<"new">> :> 5) @@ (<<"york">> :> 5) @@ (<<"new", "york">> :> 5)

ScenarioMinCounts == {4, 5, 6}

\* (scoring, threshold) of the scenario: default with 1 and with 1/10, npmi
\* with 0 and with 1
ScenarioConfigs ==
    {<<"default", <<1, 1>>>>, <<"default", <<1, 10>>>>,
     <<"npmi", <<0, 1>>>>, <<"npmi", <<1, 1>>>>}

ScenarioSentences == SeqsUpTo({new, york}, MaxApplyLen)

ScenarioConstruct ==
    /\ status = "none"
    /\ \E mc \in ScenarioMinCounts, c \in ScenarioConfigs :
           Construct(mc, c[2], 3, c[1], FALSE, <<>>)

ScenarioLearn ==
    /\ status = "ok"
    /\ corpus_word_count < 100
    /\ AddVocab(ScenarioBatch(corpus_word_count))
    /\ UNCHANGED history

ScenarioBuild ==
    /\ corpus_word_count = 100
    /\ BuildPhraser
    /\ UNCHANGED history

ScenarioExport ==
    /\ last.op \notin ReadOps
    /\ status = "ok"
    /\ \E s \in ScenarioSentences : ExportPhrases(<<s>>)

ScenarioGetitem ==
    /\ last.op \notin ReadOps
    /\ status = "ok"
    /\ \E s \in ScenarioSentences : Getitem(s)
    /\ UNCHANGED history

ScenarioPhraserGetitem ==
    /\ last.op \notin ReadOps
    /\ phraser = "built"
    /\ \E s \in ScenarioSentences : PhraserGetitemCall(s)
    /\ UNCHANGED history

NextScenario ==
    \/ ScenarioConstruct
    \/ ScenarioLearn
    \/ ScenarioBuild
    \/ ScenarioExport
    \/ ScenarioGetitem
    \/ ScenarioPhraserGetitem

SpecScenario == InitNone /\ [][NextScenario]_vars

\* the model of C6
InScenario ==
    /\ status = "ok"
    /\ vocab = ScenarioVocab
    /\ min_count = 5
    /\ threshold = <<1, 1>>
    /\ corpus_word_count = 100
    /\ scoring = "original_scorer"

\* the Phraser compiled from the model of C6 was given [new, york]
ScenarioApplied ==
    /\ InScenario
    /\ phraser = "built"
    /\ last.op = "phraser_getitem"
    /\ last.sentence = <<new, york>>

\* C6 as stated: for the model of the scenario the default score of
\* new_york is above the threshold 1, and the Phraser compiled from the
\* model turns [new, york] into [new_york].
C6_ScenarioMerges ==
    /\ InScenario =>
           ScoreGT(PhrasesScore(any2utf8(new), any2utf8(york)), threshold)
    /\ ScenarioApplied =>
           last.result = <<to_unicode(Join(any2utf8(new), any2utf8(york)))>>

\* C6 amended: for the model of the scenario the default score of new_york
\* is (5 - 5) * 3 / (5 * 5) = 0, which is not above the threshold 1; the
\* Phraser compiled from the model has no phrasegram and returns
\* [new, york] as it is.
C6_ScenarioScoreIsZero ==
    /\ InScenario =>
           /\ PhrasesScore(any2utf8(new), any2utf8(york)).n = 0
           /\ ~ScoreGT(PhrasesScore(any2utf8(new), any2utf8(york)), threshold)
    /\ ScenarioApplied =>
           /\ DOMAIN phrasegrams = {}
           /\ last.merged = {}
           /\ last.result = <<new, york>>

C6_Witness == ScenarioApplied /\ Cardinality(DOMAIN vocab) = 3

----------------------------------------------------------------------------
(* SpecSnapshot: a Phraser is compiled from a model, and the model goes on *)
(* being trained and reconfigured.                                         *)

\* most tokens the model is trained on
MaxCorpusWords == 3

\* the batches the model is trained on: one sentence with a pair at least
SnapshotBatches == {b \in Batches : b # <<>> /\ Len(b[1]) >= 2}

SnapshotThresholds == {<<1, 5>>, <<2, 1>>}

SnapshotMinCounts == {1, 3}

\* Phrases(min_count=1, threshold=0.2, max_vocab_size=2,
\*         scoring=custom_scorer)
InitSnapshot ==
    /\ status = "ok"
    /\ min_count = 1
    /\ threshold = <<1, 5>>
    /\ scoring = "custom_scorer"
    /\ max_vocab_size = 2
    /\ vocab = EmptyVocab
    /\ min_reduce = 1
    /\ corpus_word_count = 0
    /\ NoPhraser
    /\ last = [op |-> "init"]
    /\ history = <<>>

\* Phraser.__getitem__ leaves every object as it is, so whatever can follow
\* it can as well follow the state it was called in: the calls that write
\* are taken from the states a call that writes has left.
SnapshotAddVocab ==
    /\ last.op \notin ReadOps
    /\ corpus_word_count < MaxCorpusWords
    /\ \E b \in SnapshotBatches : AddVocab(b)
    /\ UNCHANGED history

\* phrases.threshold = thr, once a Phraser has been built from the model
SetThreshold ==
    /\ last.op \notin ReadOps
    /\ status = "ok"
    /\ phraser = "built"
    /\ \E thr \in SnapshotThresholds :
           /\ thr # threshold
           /\ threshold' = thr
    /\ last' = [op |-> "set_threshold"]
    /\ UNCHANGED <<status, min_count, scoring, max_vocab_size, vocab,
                   min_reduce, corpus_word_count, phraser_vars, history>>

\* phrases.min_count = mc, once a Phraser has been built from the model
SetMinCount ==
    /\ last.op \notin ReadOps
    /\ status = "ok"
    /\ phraser = "built"
    /\ \E mc \in SnapshotMinCounts :
           /\ mc # min_count
           /\ min_count' = mc
    /\ last' = [op |-> "set_min_count"]
    /\ UNCHANGED <<status, threshold, scoring, max_vocab_size, vocab,
                   min_reduce, corpus_word_count, phraser_vars, history>>

\* Phraser(phrases); the run remembers the Phraser as it was built and
\* what it returned for every sentence then
SnapshotBuild ==
    /\ BuildPhraser
    /\ history' = <<[phrasegrams |-> phrasegrams',
                     threshold |-> p_threshold',
                     min_count |-> p_min_count',
                     scoring |-> p_scoring',
                     results |-> [s \in ApplySentences |-> PhraserGetitem(s)']]>>

NextSnapshot ==
    \/ SnapshotAddVocab
    \/ SnapshotBuild
    \/ SetThreshold
    \/ SetMinCount
    \/ DoPhraserGetitem

SpecSnapshot == InitSnapshot /\ [][NextSnapshot]_vars

\* C10: once the Phraser is built, whatever is done afterwards (add_vocab
\* on the model, a new threshold or min_count of the model,
\* Phraser.__getitem__), the Phraser's phrasegrams, threshold, min_count and
\* scoring are those it was built with, and Phraser.__getitem__ returns for
\* every sentence what it returned right after the construction.
C10_PhraserDetached ==
    phraser = "built" =>
        /\ phrasegrams = history[1].phrasegrams
        /\ p_threshold = history[1].threshold
        /\ p_min_count = history[1].min_count
        /\ p_scoring = history[1].scoring
        /\ \A s \in ApplySentences :
               PhraserGetitem(s) = history[1].results[s]

\* the Phraser merges a pair whose key the model has pruned since, and the
\* model's threshold and min_count are no longer the Phraser's
C10_Witness ==
    /\ phraser = "built"
    /\ last.op = "phraser_getitem"
    /\ last.merged # {}
    /\ threshold # p_threshold
    /\ min_count # p_min_count
    /\ \E pair \in DOMAIN phrasegrams :
           Join(pair[1], pair[2]) \notin DOMAIN vocab

----------------------------------------------------------------------------
(* SpecReapply: a sentence is transformed, and the result is given to the  *)
(* same transformer again, and again.                                      *)

\* longest sentence whose transformation is repeated
MaxReapplyLen == 5

ReapplySentences == SeqsUpTo(Words, MaxReapplyLen)

ReapplyScoringArgs == {"default", "npmi", "custom_scorer"}

\* Phrases(sentences, min_count=1, threshold=thr, scoring=sc)
ReapplyConstruct ==
    /\ status = "none"
    /\ \E thr \in Thresholds, sc \in ReapplyScoringArgs, b \in Batches :
           Construct(1, thr, 1000, sc, TRUE, b)

\* Phraser(phrases), right after the model is constructed
ReapplyBuild ==
    /\ last.op = "init"
    /\ BuildPhraser
    /\ UNCHANGED history

\* phrases[sentence]; the run remembers the sentences given so far
ReapplyGetitem ==
    /\ last.op \notin ReadOps
    /\ status = "ok"
    /\ \E s \in ReapplySentences : Getitem(s) /\ history' = <<s>>

\* phraser[sentence]
ReapplyPhraserGetitem ==
    /\ last.op \notin ReadOps
    /\ phraser = "built"
    /\ \E s \in ReapplySentences :
           PhraserGetitemCall(s) /\ history' = <<s>>

\* phrases[phrases[sentence]]: the result of the last call is given to the
\* object that returned it
GetitemAgain ==
    /\ last.op = "getitem"
    /\ last.result # last.sentence
    /\ Getitem(last.result)
    /\ history' = Append(history, last.result)

\* phraser[phraser[sentence]]
PhraserGetitemAgain ==
    /\ last.op = "phraser_getitem"
    /\ last.result # last.sentence
    /\ PhraserGetitemCall(last.result)
    /\ history' = Append(history, last.result)

NextReapply ==
    \/ ReapplyConstruct
    \/ ReapplyBuild
    \/ ReapplyGetitem
    \/ ReapplyPhraserGetitem
    \/ GetitemAgain
    \/ PhraserGetitemAgain

SpecReapply == InitNone /\ [][NextReapply]_vars

\* C11 as stated: the result of transforming the output of a transformation
\* (same object) holds no two adjacent tokens that merge: transformed once
\* more, it comes back unchanged.
C11_ReapplyIsFixed ==
    (last.op \in {"getitem", "phraser_getitem"} /\ Len(history) >= 3) =>
        last.result = last.sentence

----------------------------------------------------------------------------
(* The compiled and the uncompiled transformer, in Spec, where the model   *)
(* is not modified once it is constructed.                                 *)

\* the utf8 tokens of the sentences given to __getitem__
ApplyTokens == {any2utf8(w) : w \in Words}

\* C13 as stated: for a model the constructor accepted and not modified
\* since, Phraser(model)[sentence] is model[sentence] token for token, and
\* phrasegrams holds a pair with a score above the threshold exactly when
\* the model merges the pair.
C13_CompiledEqualsUncompiled ==
    /\ last.op = "phraser_getitem" =>
           last.result = PhrasesGetitem(last.sentence).result
    /\ phraser = "built" =>
           \A a, b \in ApplyTokens :
               (/\ <<a, b>> \in DOMAIN phrasegrams
                /\ ScoreGT(phrasegrams[<<a, b>>][2], p_threshold))
               <=> PhrasesAccepts(a, b)

\* the sentence with the pairs at the positions of M joined, from token i on
RECURSIVE Rejoined(_, _, _)
Rejoined(sentence, M, i) ==
    IF i > Len(sentence) THEN <<>>
    ELSE IF i \in M
         THEN <<to_unicode(Join(any2utf8(sentence[i]),
                                any2utf8(sentence[i + 1])))>>
              \o Rejoined(sentence, M, i + 2)
         ELSE <<to_unicode(any2utf8(sentence[i]))>>
              \o Rejoined(sentence, M, i + 1)

\* the sets of positions of pairs of the sentence no two of which overlap
DisjointPairs(sentence) ==
    {M \in SUBSET (1..(Len(sentence) - 1)) : \A i \in M : (i + 1) \notin M}

\* C14: the result of Phrases.__getitem__ and of Phraser.__getitem__ for a
\* single sentence is the sentence with some non-overlapping adjacent pairs
\* joined: every token of the result is a token of the sentence or the join
\* of two adjacent ones, and splitting the joined ones gives the sentence
\* back, its last token included; the empty sentence gives the empty one.
C14_TokensConserved ==
    last.op \in {"getitem", "phraser_getitem"} =>
        /\ \E M \in DisjointPairs(last.sentence) :
               last.result = Rejoined(last.sentence, M, 1)
        /\ last.sentence = <<>> => last.result = <<>>

\* three tokens, the first two merged, the last one kept
C14_Witness ==
    /\ last.op = "getitem"
    /\ Len(last.sentence) = 3
    /\ last.sentence[2] # last.sentence[3]
    /\ last.merged = {1}
    /\ last.result = <<to_unicode(Join(any2utf8(last.sentence[1]),
                                       any2utf8(last.sentence[2]))),
                       last.sentence[3]>>

====
